---------------------------- MODULE Spec2Model ----------------------------
(***************************************************************************)
(* Model of samples/SubProcessDemo/simple_counter.py: a script that prints *)
(* "Iteration N" once per second for N = 0..19, then "Counter finished.",  *)
(* while a supervising parent reads its standard output and may terminate  *)
(* it at any moment.                                                       *)
(*                                                                         *)
(* One process is a record; proc maps a run identifier to its process.     *)
(* Spec runs one process, SpecPair runs two independent ones side by side  *)
(* (for the claims that compare runs).                                     *)
(*                                                                         *)
(* Standard output is modelled as CPython implements sys.stdout: a text    *)
(* buffer inside the process (buf) in front of the stream the parent reads *)
(* (out).  How the buffer is drained depends on what the stream is         *)
(* attached to: a terminal is line buffered, a pipe or file is block       *)
(* buffered, and -u / PYTHONUNBUFFERED writes through.  The whole output   *)
(* of the script is far smaller than one buffer block, so under block      *)
(* buffering nothing leaves the buffer before an explicit flush or the     *)
(* interpreter's exit.  Writes to the stream and sleeps are taken to       *)
(* succeed.                                                                *)
(*                                                                         *)
(* Time is counted in ticks, TicksPerSecond of them to a second; only      *)
(* sleeping takes time.                                                    *)
(***************************************************************************)
EXTENDS Integers, Sequences, FiniteSets, TLC

VARIABLES proc

vars == <<proc>>

---------------------------------------------------------------------------
(* Bounds of the model *)

\* Clock ticks per second of sleep (the granularity of observed time).
TicksPerSecond == 2

\* Cap on the lines one process may write; the script writes Limit + 1.
MaxLines == 24

---------------------------------------------------------------------------
(* Program constants *)

\* counter = 0
InitialCounter == 0

\* while counter < 20
Limit == 20

\* time.sleep(1)
SleepSeconds == 1

\* What standard output is attached to, which sets CPython's buffering.
StdoutModes == {"tty", "pipe", "unbuffered"}

---------------------------------------------------------------------------
(* Text of the lines *)

\* f"Iteration {counter}"
IterationLine(n) == "Iteration " \o ToString(n)

\* "Counter finished."
FinishedLine == "Counter finished."

---------------------------------------------------------------------------
(* Standard output *)

\* sys.stdout.flush(): everything buffered reaches the stream, in order, now.
Flush(p) ==
    [p EXCEPT !.out    = @ \o p.buf,
              !.emitAt = @ \o [i \in 1..Len(p.buf) |-> p.now],
              !.buf    = <<>>]

\* Whether a print without flush=True drains the buffer at the newline.
DrainsOnNewline(mode) == mode \in {"tty", "unbuffered"}

\* print(line, flush=flush): the text and its newline go to the buffer, which
\* is flushed when asked to, or when the stream is line buffered or unbuffered.
print(p, line, flush) ==
    LET q == [p EXCEPT !.written = Append(@, line), !.buf = Append(@, line)]
    IN  IF flush \/ DrainsOnNewline(p.mode) THEN Flush(q) ELSE q

---------------------------------------------------------------------------
(* The statements of the script, as functions on a process *)

\* The process as the interpreter starts executing the module body.
Start(mode) ==
    [pc      |-> "guard",
     counter |-> InitialCounter,
     mode    |-> mode,
     written |-> <<>>,
     buf     |-> <<>>,
     out     |-> <<>>,
     emitAt  |-> <<>>,
     now     |-> 0,
     wake    |-> 0,
     sleeps  |-> 0,
     exit    |-> -1]

\* Mutant of LoopGuard: the bound is compared with <= instead of <.
LoopGuardInclusive(p) ==
    [p EXCEPT !.pc = IF p.counter <= Limit THEN "print" ELSE "final"]

\* Mutant of LoopGuard: the loop stops one iteration early.
LoopGuardEarly(p) ==
    [p EXCEPT !.pc = IF p.counter < Limit - 1 THEN "print" ELSE "final"]

\* while counter < 20:
LoopGuard(p) ==
    [p EXCEPT !.pc = IF p.counter < Limit THEN "print" ELSE "final"]

\* Mutant of PrintIteration: flush=True is left out.
PrintIterationNoFlush(p) ==
    [print(p, IterationLine(p.counter), FALSE) EXCEPT !.pc = "incr"]

\* Mutant of PrintIteration: the value printed is one ahead of the counter.
PrintIterationAhead(p) ==
    [print(p, IterationLine(p.counter + 1), TRUE) EXCEPT !.pc = "incr"]

\* print(f"Iteration {counter}", flush=True)
PrintIteration(p) ==
    [print(p, IterationLine(p.counter), TRUE) EXCEPT !.pc = "incr"]

\* Mutant of Increment: the counter is left as it is.
IncrementStuck(p) ==
    [p EXCEPT !.pc = "sleep"]

\* Mutant of Increment: the counter rises by two.
IncrementByTwo(p) ==
    [p EXCEPT !.counter = @ + 2, !.pc = "sleep"]

\* Mutant of Increment: the loop is left before the delay once the bound is hit.
IncrementBreakAtLimit(p) ==
    [p EXCEPT !.counter = @ + 1,
              !.pc = IF p.counter + 1 >= Limit THEN "guard" ELSE "sleep"]

\* counter += 1
Increment(p) ==
    [p EXCEPT !.counter = @ + 1, !.pc = "sleep"]

\* Mutant of SleepCall: the call returns without any delay.
SleepCallNoDelay(p) ==
    [p EXCEPT !.wake = p.now, !.pc = "sleeping"]

\* time.sleep(1): the call blocks the only thread until the wake-up time.
SleepCall(p) ==
    [p EXCEPT !.wake = p.now + SleepSeconds * TicksPerSecond, !.pc = "sleeping"]

\* Time passing while the process is blocked in time.sleep.
Tick(p) ==
    [p EXCEPT !.now = @ + 1]

\* time.sleep(1) returns; control goes back to the loop guard.
SleepReturn(p) ==
    [p EXCEPT !.sleeps = @ + 1, !.pc = "guard"]

\* print("Counter finished.")
PrintFinished(p) ==
    [print(p, FinishedLine, FALSE) EXCEPT !.pc = "exit"]

\* Mutant of InterpreterExit: the process exits without flushing sys.stdout.
InterpreterExitNoFlush(p) ==
    [p EXCEPT !.buf = <<>>, !.exit = 0, !.pc = "done"]

\* End of the module: the interpreter flushes sys.stdout and exits with 0.
InterpreterExit(p) ==
    [Flush(p) EXCEPT !.exit = 0, !.pc = "done"]

\* The script installs no signal handler and has no try/finally: a supervisor
\* that terminates the process ends it on the spot, and what is still in the
\* process's buffer is lost.  The exit status is the terminating mechanism's
\* (137 is how a shell reports SIGKILL).
Kill(p) ==
    [p EXCEPT !.buf = <<>>, !.exit = 137, !.pc = "killed"]

---------------------------------------------------------------------------
(* Actions *)

Do(r, q) == proc' = [proc EXCEPT ![r] = q]

DoLoopGuard(r) ==
    /\ proc[r].pc = "guard"
    /\ Do(r, LoopGuard(proc[r]))

DoPrintIteration(r) ==
    /\ proc[r].pc = "print"
    /\ Len(proc[r].written) < MaxLines
    /\ Do(r, PrintIteration(proc[r]))

DoIncrement(r) ==
    /\ proc[r].pc = "incr"
    /\ Do(r, Increment(proc[r]))

DoSleepCall(r) ==
    /\ proc[r].pc = "sleep"
    /\ Do(r, SleepCall(proc[r]))

DoTick(r) ==
    /\ proc[r].pc = "sleeping"
    /\ proc[r].now < proc[r].wake
    /\ Do(r, Tick(proc[r]))

DoSleepReturn(r) ==
    /\ proc[r].pc = "sleeping"
    /\ proc[r].now >= proc[r].wake
    /\ Do(r, SleepReturn(proc[r]))

DoPrintFinished(r) ==
    /\ proc[r].pc = "final"
    /\ Len(proc[r].written) < MaxLines
    /\ Do(r, PrintFinished(proc[r]))

DoInterpreterExit(r) ==
    /\ proc[r].pc = "exit"
    /\ Do(r, InterpreterExit(proc[r]))

DoKill(r) ==
    /\ proc[r].pc \notin {"done", "killed"}
    /\ Do(r, Kill(proc[r]))

\* One step of the script itself (everything but its termination from outside).
Step(r) ==
    \/ DoLoopGuard(r)
    \/ DoPrintIteration(r)
    \/ DoIncrement(r)
    \/ DoSleepCall(r)
    \/ DoTick(r)
    \/ DoSleepReturn(r)
    \/ DoPrintFinished(r)
    \/ DoInterpreterExit(r)

Init == proc \in [{1} -> {Start(m) : m \in StdoutModes}]

InitPair == proc \in [{1, 2} -> {Start(m) : m \in StdoutModes}]

Next ==
    \/ \E r \in DOMAIN proc : DoLoopGuard(r)
    \/ \E r \in DOMAIN proc : DoPrintIteration(r)
    \/ \E r \in DOMAIN proc : DoIncrement(r)
    \/ \E r \in DOMAIN proc : DoSleepCall(r)
    \/ \E r \in DOMAIN proc : DoTick(r)
    \/ \E r \in DOMAIN proc : DoSleepReturn(r)
    \/ \E r \in DOMAIN proc : DoPrintFinished(r)
    \/ \E r \in DOMAIN proc : DoInterpreterExit(r)
    \/ \E r \in DOMAIN proc : DoKill(r)

\* One process under a supervisor that may terminate it.
Spec == Init /\ [][Next]_vars

\* The same, with the script scheduled whenever it can take a step.
LiveSpec == Init /\ [][Next]_vars /\ WF_vars(Step(1))

\* Two independent processes, each with its own attachment of standard output.
SpecPair == InitPair /\ [][Next]_vars

---------------------------------------------------------------------------
(* Vocabulary of the properties *)

\* The process of a single run.
main == proc[1]

\* The 21 lines of a complete run: "Iteration 0" .. "Iteration 19", then
\* "Counter finished.".
ExpectedOutput ==
    [i \in 1..21 |-> IF i <= 20 THEN "Iteration " \o ToString(i - 1)
                                ELSE "Counter finished."]

Range(s) == {s[i] : i \in 1..Len(s)}

IsPrefix(s, t) == Len(s) <= Len(t) /\ s = SubSeq(t, 1, Len(s))

\* The number of "Iteration" lines among lines s.
IterationLines(s) == Cardinality({i \in 1..Len(s) : s[i] # "Counter finished."})

Killed(p) == p.pc = "killed"

\* RUNNING: control is inside the while loop.
Running(p) == p.pc \in {"guard", "print", "incr", "sleep", "sleeping"}

\* DONE: the final line is written and the process is exiting or has exited.
Done(p) == p.pc \in {"exit", "done"}

---------------------------------------------------------------------------
(* Properties *)

\* C1: a run that is never terminated from outside ends with exactly the 21
\* lines "Iteration 0" .. "Iteration 19", "Counter finished." on standard
\* output, in that order, and exit status 0.
C1_CompleteRunOutput ==
    main.pc = "done" =>
        /\ main.out = ExpectedOutput
        /\ main.written = ExpectedOutput
        /\ main.exit = 0

C1_Witness == main.pc = "done" /\ main.mode = "pipe" /\ Len(main.out) = 21

\* C3 (as claimed): every line the script has written, the final one
\* included, is already on the stream the parent reads, at every moment and
\* also after a termination from outside.
C3_EveryWrittenLineVisible == main.out = main.written

\* C4: for N in 0..18, once the script is at or in the sleep that follows
\* "Iteration N", that line is on the stream, and it got there no later than
\* the moment that sleep began.
C4_LineVisibleBeforeDelay ==
    (main.pc \in {"sleep", "sleeping"} /\ main.counter \in 1..19) =>
        /\ Len(main.out) = main.counter
        /\ main.out[main.counter] = "Iteration " \o ToString(main.counter - 1)
        /\ main.emitAt[main.counter] = (main.counter - 1) * SleepSeconds * TicksPerSecond
        /\ main.pc = "sleeping" =>
               main.emitAt[main.counter] <= main.wake - SleepSeconds * TicksPerSecond

C4_Witness ==
    /\ main.pc = "sleeping" /\ main.mode = "pipe"
    /\ main.counter = 19 /\ main.now < main.wake
    /\ main.out[19] = "Iteration 18"

\* C2: once the process has been terminated from outside its output never
\* changes again, and if fewer than 20 "Iteration" lines were out at that
\* point the output holds exactly those lines and no "Counter finished.".
C2_FrozenAfterTermination ==
    /\ [][Killed(main) => (Killed(main') /\ main'.out = main.out)]_vars
    /\ [](Killed(main) /\ IterationLines(main.out) < 20 =>
            /\ "Counter finished." \notin Range(main.out)
            /\ main.out = SubSeq(ExpectedOutput, 1, Len(main.out)))

C2_Witness ==
    Killed(main) /\ main.mode = "pipe" /\ main.counter = 7 /\ Len(main.out) = 7

\* C5: a run that is not terminated from outside reaches the end of the
\* script; there the counter is 20, the loop body has run exactly 20 times
\* and the final line is out.
C5_ReachesDone ==
    /\ <>(main.pc = "done" \/ Killed(main))
    /\ [](main.pc = "done" =>
            /\ main.counter = 20
            /\ main.sleeps = 20
            /\ IterationLines(main.out) = 20
            /\ main.out[Len(main.out)] = "Counter finished.")

C5_Witness == main.pc = "done" /\ main.counter = 20 /\ main.sleeps = 20

\* C6: with every sleep lasting exactly one second and nothing else taking
\* time, "Iteration N" reaches the stream at second N; what is out during the
\* first 2.5 seconds is a prefix of "Iteration 0", "Iteration 1",
\* "Iteration 2", and at 2.5 seconds it is exactly these three lines.
C6_OutputByTime ==
    /\ \A i \in 1..Len(main.out) :
           i <= 20 => main.emitAt[i] = (i - 1) * TicksPerSecond
    /\ 2 * main.now <= 5 * TicksPerSecond =>
           IsPrefix(main.out, SubSeq(ExpectedOutput, 1, 3))
    /\ (~Killed(main) /\ 2 * main.now <= 5 * TicksPerSecond
                      /\ 5 * TicksPerSecond < 2 * (main.now + 1)) =>
           main.out = SubSeq(ExpectedOutput, 1, 3)

C6_Witness ==
    /\ 2 * main.now = 5 * TicksPerSecond
    /\ main.pc = "sleeping"
    /\ main.out = <<"Iteration 0", "Iteration 1", "Iteration 2">>

\* C7 (as claimed): the counter stays in 0..20 and changes only by +1; a live
\* process is RUNNING exactly when the counter is below 20 and DONE only when
\* it is 20; at every evaluation of the loop guard the number of "Iteration"
\* lines out equals the counter and the last value out is counter - 1.
C7_RunningIffBelowLimit ==
    /\ [][main'.counter = main.counter \/ main'.counter = main.counter + 1]_vars
    /\ [](/\ main.counter \in 0..20
          /\ ~Killed(main) => (Running(main) <=> main.counter \in 0..19)
          /\ Done(main) => main.counter = 20
          /\ main.pc = "guard" =>
                 /\ IterationLines(main.out) = main.counter
                 /\ main.counter > 0 =>
                        main.out[Len(main.out)] =
                            "Iteration " \o ToString(main.counter - 1))

\* C7 (amended): the counter stays in 0..20 and changes only by +1; a live
\* process whose counter is below 20 is RUNNING, a RUNNING process has counter
\* 20 only from the increment after "Iteration 19" to the guard evaluation
\* that leaves the loop, and DONE implies counter 20; at every evaluation of
\* the loop guard the number of "Iteration" lines out equals the counter and
\* the last value out is counter - 1.
C7_CounterAndStates ==
    /\ [][main'.counter = main.counter \/ main'.counter = main.counter + 1]_vars
    /\ [](/\ main.counter \in 0..20
          /\ (~Killed(main) /\ main.counter \in 0..19) => Running(main)
          /\ (Running(main) /\ main.counter = 20) =>
                 (main.pc \in {"sleep", "sleeping", "guard"} /\ Len(main.out) = 20)
          /\ Done(main) => main.counter = 20
          /\ main.pc = "guard" =>
                 /\ IterationLines(main.out) = main.counter
                 /\ main.counter > 0 =>
                        main.out[Len(main.out)] =
                            "Iteration " \o ToString(main.counter - 1))

C7_Witness ==
    /\ main.pc = "sleeping" /\ main.counter = 20 /\ main.now < main.wake
    /\ "Counter finished." \notin Range(main.written)

\* C8: within a tick the line is out before the counter is incremented and
\* the counter is incremented before the sleep; every "Iteration" line is
\* followed by a full delay, so "Counter finished." is written only after 20
\* delays, 20 seconds into the run, never right after "Iteration 19".
C8_TickOrderAndDelays ==
    /\ main.pc = "incr" =>
           /\ Len(main.out) = main.counter + 1
           /\ main.out[Len(main.out)] = "Iteration " \o ToString(main.counter)
           /\ main.sleeps = main.counter
    /\ main.pc \in {"sleep", "sleeping"} =>
           /\ Len(main.out) = main.counter
           /\ main.sleeps = main.counter - 1
    /\ main.pc = "sleeping" => main.wake = main.counter * TicksPerSecond
    /\ main.pc = "guard" => main.sleeps = Len(main.out)
    /\ "Counter finished." \in Range(main.written) =>
           /\ main.sleeps = 20
           /\ main.now = 20 * TicksPerSecond
           /\ main.emitAt[20] = 19 * TicksPerSecond

C8_Witness ==
    /\ main.pc = "exit" /\ main.sleeps = 20
    /\ "Counter finished." \in Range(main.written)

\* C9: the lines on the stream are always a prefix of the 21-line sequence,
\* killed or not, and every step leaves them as they are or appends exactly
\* the next line of that sequence.
C9_AppendOnlyInOrder ==
    /\ [](IsPrefix(main.out, ExpectedOutput))
    /\ [][\/ main'.out = main.out
          \/ /\ Len(main.out) < 21
             /\ main'.out = Append(main.out, ExpectedOutput[Len(main.out) + 1])]_vars

C9_Witness ==
    /\ Killed(main) /\ main.mode = "pipe" /\ Len(main.written) = 21
    /\ main.out = SubSeq(ExpectedOutput, 1, 20)

\* C10: two runs whose standard output is attached differently, each stopped
\* wherever its supervisor likes, have outputs one of which is a prefix of
\* the other, and two runs left to complete have the same output.
C10_RunsAgree ==
    /\ IsPrefix(proc[1].out, proc[2].out) \/ IsPrefix(proc[2].out, proc[1].out)
    /\ (proc[1].pc = "done" /\ proc[2].pc = "done") => proc[1].out = proc[2].out

C10_Witness ==
    /\ proc[1].pc = "done" /\ proc[2].pc = "done"
    /\ proc[1].mode = "tty" /\ proc[2].mode = "pipe"
    /\ Len(proc[1].out) = 21

=============================================================================
